---- MODULE Spec2Model ----
(***************************************************************************)
(* A model of brain_proxy.py: the request augmentation and relay pipeline  *)
(* of BrainProxy (message normalisation, file ingestion, memory and        *)
(* retrieval injection, upstream dispatch, buffered and streaming relay,   *)
(* memory write-back and usage accounting).                                *)
(*                                                                         *)
(* Text is modelled as a sequence of one-character strings, so that join,  *)
(* strip, replace and concatenation are computed as Python computes them.  *)
(* Optional values are <<>> (None) or <<v>>.                               *)
(***************************************************************************)
EXTENDS Integers, Sequences, FiniteSets, TLC

\* ------------------------------------------------------------------------
\* Text helpers
\* ------------------------------------------------------------------------
None == <<>>

Some(v) == <<v>>

Last(s) == s[Len(s)]

\* s[:-1]
Front(s) == SubSeq(s, 1, Len(s) - 1)

RECURSIVE Join(_, _)
\* sep.join(items)
Join(sep, items) ==
    IF Len(items) = 0 THEN <<>>
    ELSE IF Len(items) = 1 THEN items[1]
    ELSE items[1] \o sep \o Join(sep, Tail(items))

RECURSIVE Concat(_)
\* "".join(items)
Concat(items) == IF Len(items) = 0 THEN <<>> ELSE items[1] \o Concat(Tail(items))

RECURSIVE Replace(_, _, _)
\* s.replace(old, new) for a one-character old
Replace(s, old, new) ==
    IF Len(s) = 0 THEN <<>>
    ELSE (IF s[1] = old THEN new ELSE <<s[1]>>) \o Replace(Tail(s), old, new)

Whitespace == {" ", "\n", "\t"}

RECURSIVE LStrip(_)
LStrip(s) == IF Len(s) > 0 /\ s[1] \in Whitespace THEN LStrip(Tail(s)) ELSE s

RECURSIVE RStrip(_)
RStrip(s) == IF Len(s) > 0 /\ Last(s) \in Whitespace THEN RStrip(Front(s)) ELSE s

\* s.strip()
Strip(s) == RStrip(LStrip(s))

NL == <<"\n">>

\* ------------------------------------------------------------------------
\* Request data (ChatRequest, ChatMessage, ContentPart, FileData)
\* ------------------------------------------------------------------------
\* max_upload_mb, the constructor's default
MaxUploadMb == 20

\* self.max_upload_bytes
max_upload_bytes == MaxUploadMb * 1024 * 1024

\* Decoded bytes are kept abstract: an identity and a length.
Bytes(id, n) == [id |-> id, len |-> n]

\* A base-64 payload: either it decodes to some bytes, or b64decode raises.
B64(bytes) == [padding_ok |-> TRUE, encodes |-> bytes]

BadB64 == [padding_ok |-> FALSE, encodes |-> Bytes(<<"0">>, 0)]

\* base64.b64decode(data): the bytes, or None when it raises binascii.Error
b64decode(data) == IF data.padding_ok THEN Some(data.encodes) ELSE None

FileData(name, data) == [name |-> name, mime |-> "text/plain", data |-> data]

TextPart(opt_text) == [type |-> "text", text |-> opt_text, file_data |-> None]

ImagePart == [type |-> "image_url", text |-> None, file_data |-> None]

FilePart(fd) == [type |-> "file_data", text |-> None, file_data |-> Some(fd)]

\* ChatMessage.content: str | List[ContentPart]
StrContent(s) == [is_str |-> TRUE, str |-> s, parts |-> <<>>]

PartsContent(ps) == [is_str |-> FALSE, str |-> <<>>, parts |-> ps]

ChatMessage(role, content) == [role |-> role, content |-> content]

\* A normalised turn: {"role": ..., "content": <str>}
Turn(role, text) == [role |-> role, content |-> text]

\* ------------------------------------------------------------------------
\* Message normaliser: BrainProxy._split_files
\* ------------------------------------------------------------------------
\* part.text or ""
TextOrEmpty(part) == IF part.text = None THEN <<>> ELSE part.text[1]

FileTooLargeGE(fd) == Len(b64decode(fd.data)) = 1 /\ b64decode(fd.data)[1].len >= max_upload_bytes

\* len(base64.b64decode(part.file_data.data)) > self.max_upload_bytes
FileTooLarge(fd) == Len(b64decode(fd.data)) = 1 /\ b64decode(fd.data)[1].len > max_upload_bytes

\* The try block of the file branch: the file is appended unless the decode
\* raises or the ValueError for an oversized file is raised.
FileAccepted(fd) == b64decode(fd.data) # None /\ ~FileTooLarge(fd)

RECURSIVE TextParts(_)
\* text_parts after the loop over msg.content
TextParts(parts) ==
    IF Len(parts) = 0 THEN <<>>
    ELSE (IF parts[1].type = "text" THEN <<TextOrEmpty(parts[1])>> ELSE <<>>)
         \o TextParts(Tail(parts))

RECURSIVE PartFiles(_)
\* what the loop over msg.content appends to files
PartFiles(parts) ==
    IF Len(parts) = 0 THEN <<>>
    ELSE (IF parts[1].type # "text" /\ parts[1].file_data # None
             /\ FileAccepted(parts[1].file_data[1])
          THEN <<parts[1].file_data[1]>> ELSE <<>>)
         \o PartFiles(Tail(parts))

TurnEmittedAlways(msg) == TRUE

\* whether the loop body appends a turn for msg: a str content always,
\* a part list only `if text_parts:`
TurnEmitted(msg) == msg.content.is_str \/ Len(TextParts(msg.content.parts)) > 0

JoinedTextReversed(msg) ==
    IF msg.content.is_str THEN msg.content.str
    ELSE Join(NL, [i \in 1..Len(TextParts(msg.content.parts)) |->
                     TextParts(msg.content.parts)[Len(TextParts(msg.content.parts)) + 1 - i]])

\* the content of the appended turn
JoinedText(msg) ==
    IF msg.content.is_str THEN msg.content.str
    ELSE Join(NL, TextParts(msg.content.parts))

RECURSIVE SplitMsgs(_)
\* conv_msgs
SplitMsgs(msgs) ==
    IF Len(msgs) = 0 THEN <<>>
    ELSE (IF TurnEmitted(msgs[1]) THEN <<Turn(msgs[1].role, JoinedText(msgs[1]))>> ELSE <<>>)
         \o SplitMsgs(Tail(msgs))

RECURSIVE SplitFileList(_)
\* files
SplitFileList(msgs) ==
    IF Len(msgs) = 0 THEN <<>>
    ELSE (IF msgs[1].content.is_str THEN <<>> ELSE PartFiles(msgs[1].content.parts))
         \o SplitFileList(Tail(msgs))

\* _split_files(msgs) -> (conv_msgs, files)
SplitFiles(msgs) == [msgs |-> SplitMsgs(msgs), files |-> SplitFileList(msgs)]

\* ------------------------------------------------------------------------
\* Vector stores: chroma_vec_factory, default_vector_store_factory
\* ------------------------------------------------------------------------
VEC_PREFIX == <<"v", "e", "c", "_">>

MEMORY_SUFFIX == <<"_", "m", "e", "m", "o", "r", "y">>

\* default_vector_store_factory(tenant, embeddings): the Chroma collection
\* name, which also names its persist directory
default_vector_store_factory(tenant) == VEC_PREFIX \o tenant

\* self.vec_factory(tenant) in _ingest_files and _rag
DocCollection(tenant) == default_vector_store_factory(tenant)

\* self.vec_factory(f"{tenant}_memory") in _get_mem_manager
MemCollection(tenant) == default_vector_store_factory(tenant \o MEMORY_SUFFIX)

\* Document(page_content=..., metadata={"name": ...}); a memory has no name
Document(text, opt_name) == [page_content |-> text, name |-> opt_name]

\* the contents of a collection; a collection never written is empty
Contents(chroma, coll) == IF coll \in DOMAIN chroma THEN chroma[coll] ELSE <<>>

\* vec.add_documents(docs)
AddDocuments(chroma, coll, docs) ==
    [c \in DOMAIN chroma \cup {coll} |->
        IF c = coll THEN Contents(chroma, coll) \o docs ELSE chroma[c]]

Min(a, b) == IF a < b THEN a ELSE b

\* vec.similarity_search(query, k): the store is opaque; it returns up to k of
\* the collection's documents, here the first k in insertion order
SimilaritySearch(chroma, coll, k) ==
    SubSeq(Contents(chroma, coll), 1, Min(k, Len(Contents(chroma, coll))))

\* mem_top_k, the constructor's default
mem_top_k == 6

\* k, the default of _rag
rag_k == 4

\* ------------------------------------------------------------------------
\* Document ingestor: BrainProxy._ingest_files
\* ------------------------------------------------------------------------
\* storage_dir, the constructor's default
storage_dir == <<"t", "e", "n", "a", "n", "t", "s">>

\* _sha(data)[:8]: the first hexadecimal digits of the digest, kept abstract
\* as two digits, one value per content
Sha8(bytes) == <<"f">> \o bytes.id

\* file.name.replace(" ", "_")
SanitizedName(name) == Replace(name, " ", <<"_">>)

\* Path(f"{self.storage_dir}/{tenant}_{_sha(data)[:8]}_{name}")
StoredPath(tenant, bytes, name) ==
    storage_dir \o <<"/">> \o tenant \o <<"_">> \o Sha8(bytes) \o <<"_">> \o SanitizedName(name)

WriteBytesExclusive(fs, path, bytes) ==
    IF path \in DOMAIN fs
    THEN [fs |-> fs, error |-> "FileExistsError"]
    ELSE [fs |-> [p \in DOMAIN fs \cup {path} |-> IF p = path THEN bytes ELSE fs[p]],
          error |-> "none"]

\* path.parent.mkdir(exist_ok=True, parents=True); path.write_bytes(data):
\* the file is created or truncated and rewritten
WriteBytes(fs, path, bytes) ==
    [fs |-> [p \in DOMAIN fs \cup {path} |-> IF p = path THEN bytes ELSE fs[p]],
     error |-> "none"]

\* the default extract_text, p.read_text("utf-8", "ignore"): the text of the
\* stored bytes, kept abstract as a table from content to text
ReadText(bytes) ==
    CASE bytes.id = <<"1">> -> <<"d", "1">>
      [] bytes.id = <<"2">> -> <<"d", "2">>
      [] bytes.id = <<"3">> -> <<"d", "3">>
      [] bytes.id = <<"4">> -> <<" ", "\n">>
      [] OTHER -> <<>>

\* ------------------------------------------------------------------------
\* Memory and retrieval injection: chat (memory block), BrainProxy._rag
\* ------------------------------------------------------------------------
MEM_PREFIX ==
    <<"R", "e", "l", "e", "v", "a", "n", "t", " ", "m", "e", "m", "o", "r", "i", "e", "s", ":", "\n">>

RAG_PREFIX ==
    <<"R", "e", "l", "e", "v", "a", "n", "t", " ", "c", "o", "n", "t", "e", "x", "t", " ",
      "f", "r", "o", "m", " ", "d", "o", "c", "u", "m", "e", "n", "t", "s", ":", "\n", "\n">>

PageContents(docs) == [i \in 1..Len(docs) |-> docs[i].page_content]

\* _retrieve_memories: "\n".join(memories)
MemBlock(memories) == Join(NL, memories)

SpliceAfterLast(msgs, turn) == msgs \o <<turn>>

AppendTurn(msgs, turn) == msgs \o <<turn>>

\* msgs[:-1] + [turn, msgs[-1]]
SpliceBeforeLast(msgs, turn) == Front(msgs) \o <<turn, Last(msgs)>>

InsertInPlace(lists, value) == [lists EXCEPT ![Len(lists)] = value]

\* msgs[:-1] + [...] builds a new list object; the list objects that exist
\* keep their elements. lists holds the request's conversation lists in the
\* order of their creation, the last being the one `msgs` is bound to.
NewList(lists, value) == Append(lists, value)

\* msgs after the memory block or after _rag: the same list object when
\* nothing was injected, else a new one
Rebind(lists, value) == IF value = Last(lists) THEN lists ELSE NewList(lists, value)

\* chat: the memory block, inserted when mem_block is not empty
InjectMemoryOverLast(msgs, mem_block) ==
    IF mem_block # <<>>
    THEN Front(msgs) \o <<Turn("system", MEM_PREFIX \o mem_block)>>
    ELSE msgs

InjectMemory(msgs, mem_block) ==
    IF mem_block # <<>>
    THEN SpliceBeforeLast(msgs, Turn("system", MEM_PREFIX \o mem_block))
    ELSE msgs

\* _rag: query = msgs[-1]["content"] if it is a str else ""
RagQuery(msgs) == Last(msgs).content

RagInjectAtFront(msgs, docs) ==
    IF docs = <<>> THEN msgs
    ELSE <<Turn("system", RAG_PREFIX \o Join(NL \o NL, PageContents(docs)))>> \o msgs

\* _rag: the context block, "\n\n".join of the results' contents
RagInject(msgs, docs) ==
    IF docs = <<>> THEN msgs
    ELSE SpliceBeforeLast(msgs,
             Turn("system", RAG_PREFIX \o Join(NL \o NL, PageContents(docs))))

\* ------------------------------------------------------------------------
\* Input pools
\* ------------------------------------------------------------------------
Hi == <<"h", "i">>

Yo == <<"y", "o">>

NameN == <<"n">>

SmallBytes == Bytes(<<"1">>, 5)

ExactBytes == Bytes(<<"2">>, max_upload_bytes)

OverBytes == Bytes(<<"3">>, max_upload_bytes + 1)

FileSmall == FileData(NameN, B64(SmallBytes))

FileExact == FileData(NameN, B64(ExactBytes))

FileOver == FileData(NameN, B64(OverBytes))

FileBad == FileData(NameN, BadB64)

Roles == {"user", "assistant"}

NormParts ==
    {TextPart(Some(Hi)), TextPart(Some(Yo)), TextPart(None), ImagePart,
     FilePart(FileSmall), FilePart(FileExact), FilePart(FileOver), FilePart(FileBad)}

NormFreshContents == {StrContent(Hi), StrContent(<<>>), PartsContent(<<>>)}

\* turns plus parts of a request body, for the normaliser's specification
MaxInputItems == 4

RECURSIVE InputItems(_)
InputItems(msgs) ==
    IF Len(msgs) = 0 THEN 0
    ELSE 1 + Len(msgs[1].content.parts) + InputItems(Tail(msgs))

\* ------------------------------------------------------------------------
\* Memory write-back: BrainProxy._write_memories, resolved over what the
\* extraction override, the extractor and the store adapter do
\* ------------------------------------------------------------------------
OverrideMemories == << <<"o", "1">> >>

ExtractedMemories == << <<"m", "1">> >>

\* manager_fn(tenant, conversation): raises, returns nothing, returns a
\* non-empty list of memories, or returns a callable
OverrideOutcomes == {"raise", "nothing", "memories", "callable"}

\* manager(conversation): raises, or returns a list of memories
ExtractOutcomes == {"raise", "nothing", "memories"}

\* store(memories): vec.add_documents succeeds or raises
StoreOutcomes == {"ok", "raise"}

ResolveOverrideCallableAsNothing(has_override, ov) ==
    IF ~has_override THEN [go |-> TRUE, which |-> "cached", memories |-> <<>>]
    ELSE CASE ov = "memories" -> [go |-> TRUE, which |-> "cached", memories |-> OverrideMemories]
           [] OTHER -> [go |-> FALSE, which |-> "cached", memories |-> <<>>]

\* _write_memories, `if manager_fn:` ... : go says whether the method goes on
\* past the override, which names the extractor to use, memories is the list
\* the override returned
ResolveOverride(has_override, ov) ==
    IF ~has_override THEN [go |-> TRUE, which |-> "cached", memories |-> <<>>]
    ELSE CASE ov = "raise" -> [go |-> FALSE, which |-> "cached", memories |-> <<>>]
           [] ov = "nothing" -> [go |-> FALSE, which |-> "cached", memories |-> <<>>]
           [] ov = "callable" -> [go |-> TRUE, which |-> "override", memories |-> <<>>]
           [] OTHER -> [go |-> TRUE, which |-> "cached", memories |-> OverrideMemories]

StoreMemoriesUncaught(mems, st) ==
    [called |-> mems # <<>>, stored |-> mems # <<>> /\ st = "ok",
     raised |-> mems # <<>> /\ st = "raise"]

\* _write_memories, `if not memories: return` and try: await store(memories)
\* except Exception: print(...)
StoreMemories(mems, st) ==
    [called |-> mems # <<>>, stored |-> mems # <<>> /\ st = "ok", raised |-> FALSE]

\* _write_memories: raised says whether an exception leaves the method,
\* manager whether _get_mem_manager was called, extractor which extractor ran,
\* memories what was handed to store, store_called whether store was called,
\* stored whether store succeeded
WriteMemories(enabled, has_override, ov, ex, st) ==
    IF ~enabled
    THEN [raised |-> FALSE, manager |-> FALSE, override_called |-> FALSE,
          extractor |-> "none", memories |-> <<>>, store_called |-> FALSE, stored |-> FALSE]
    ELSE LET base == [raised |-> FALSE, manager |-> TRUE, override_called |-> has_override,
                      extractor |-> "none", memories |-> <<>>, store_called |-> FALSE,
                      stored |-> FALSE]
             o == ResolveOverride(has_override, ov)
         IN IF ~o.go
            THEN [base EXCEPT !.raised = (has_override /\ ov = "raise")]
            ELSE IF o.memories = <<>> /\ ex = "raise"
            THEN [base EXCEPT !.raised = TRUE, !.extractor = o.which]
            ELSE LET ran == o.memories = <<>>
                     mems == IF ~ran THEN o.memories
                             ELSE IF ex = "memories" THEN ExtractedMemories ELSE <<>>
                     s == StoreMemories(mems, st)
                 IN [base EXCEPT !.extractor = IF ran THEN o.which ELSE "none",
                                 !.memories = mems,
                                 !.store_called = s.called,
                                 !.stored = s.stored,
                                 !.raised = s.raised]

\* _store_mem: one Document per memory
MemoryDocs(memories) == [i \in 1..Len(memories) |-> Document(memories[i], None)]

\* ------------------------------------------------------------------------
\* Pools of the pipeline's inputs
\* ------------------------------------------------------------------------
TenantA == <<"a">>

TenantB == <<"b">>

TenantAMemory == TenantA \o MEMORY_SUFFIX

Tenants == {TenantA, TenantB, TenantAMemory}

NameSpaced == <<"m", " ", "f">>

SpaceBytes == Bytes(<<"4">>, 2)

FileBlank == FileData(NameSpaced, B64(SpaceBytes))

User(content) == ChatMessage("user", content)

\* req.messages of the requests the clients send
MessagePool ==
    { <<>>,
      <<User(StrContent(Hi))>>,
      <<ChatMessage("assistant", StrContent(Yo)), User(StrContent(Hi))>>,
      <<User(StrContent(Hi)), User(PartsContent(<<TextPart(None)>>))>>,
      <<User(PartsContent(<<FilePart(FileSmall)>>))>>,
      <<User(PartsContent(<<FilePart(FileOver), TextPart(Some(Hi)), FilePart(FileExact),
                            FilePart(FileBad), FilePart(FileBlank)>>))>> }

Body(messages, model, stream) == [messages |-> messages, model |-> model, stream |-> stream]

\* the bodies of the requests: every conversation buffered and streamed
\* without a model, one with a model, and one with "model": ""
Bodies ==
    {Body(m, None, st) : m \in MessagePool, st \in BOOLEAN}
    \cup {Body(<<User(StrContent(Hi))>>, Some(<<"g">>), FALSE),
          Body(<<User(StrContent(Hi))>>, Some(<<>>), FALSE)}

default_model == <<"d">>

\* the assistant message of a buffered completion
AssistantText == <<"o", "k">>

\* choices[0] of a streamed chunk: no delta, a null content, or a text
ChunkPool ==
    { [delta |-> None],
      [delta |-> Some([content |-> None])],
      [delta |-> Some([content |-> Some(<<"o">>)])],
      [delta |-> Some([content |-> Some(<<"k", "!">>)])] }

DeltaOfNullAsText(chunk) ==
    IF chunk.delta = None THEN <<>>
    ELSE IF chunk.delta[1].content = None THEN <<"N", "o", "n", "e">>
    ELSE chunk.delta[1].content[1]

\* payload["choices"][0].get("delta", {}).get("content", ""), None as ""
DeltaOf(chunk) ==
    IF chunk.delta = None THEN <<>>
    ELSE IF chunk.delta[1].content = None THEN <<>>
    ELSE chunk.delta[1].content[1]

\* f"data: {json.dumps(payload)}\n\n"
ContentFrame(chunk) == [kind |-> "data", payload |-> Some(chunk)]

\* "data: [DONE]\n\n"
DoneFrame == [kind |-> "done", payload |-> None]

EmitDoneTwice(frames) == frames \o <<DoneFrame, DoneFrame>>

\* yield "data: [DONE]\n\n", once the loop over upstream_iter has ended
EmitDone(frames) == Append(frames, DoneFrame)

\* chunks the upstream provider streams for one request
MaxChunks == 2

\* the requests of one behaviour
Reqs == {"r1", "r2"}

\* ------------------------------------------------------------------------
\* State
\* ------------------------------------------------------------------------
VARIABLES
    cfg,           \* the constructor's arguments: enable_memory, manager_fn, auth_hook, usage_hook
    fs,            \* the files under storage_dir: path -> bytes
    chroma,        \* the Chroma collections: collection name -> documents
    mem_managers,  \* self._mem_managers: tenant -> cached triple
    built,         \* how often a memory manager was constructed, per tenant
    touched,       \* the collections each tenant's requests opened, read or wrote
    store_log,     \* the writes of _ingest_files: tenant, bytes, name, path, error
    req,           \* the requests: each a record of chat()'s locals and position
    norm_in,       \* the messages handed to _split_files
    norm_out       \* what _split_files returned for them

pipe_vars == <<cfg, fs, chroma, mem_managers, built, touched, store_log, req>>

norm_vars == <<norm_in, norm_out>>

vars == <<cfg, fs, chroma, mem_managers, built, touched, store_log, req, norm_in, norm_out>>

NewRequest ==
    [pc |-> "new", tenant |-> <<>>, stream |-> FALSE, model |-> None, body |-> <<>>,
     norm |-> <<>>, msgs |-> <<>>, files |-> <<>>, next_file |-> 1, docs |-> <<>>,
     mem_block |-> <<>>, rag_docs |-> <<>>, dispatched |-> None, upstream_model |-> None,
     upstream_ok |-> FALSE, usage |-> None, chunks |-> <<>>, frames |-> <<>>, buf |-> <<>>,
     wrote |-> <<>>, tokens |-> 0, wb_calls |-> <<>>, usage_calls |-> <<>>, outcome |-> "none",
     events |-> <<>>, entry |-> "none", rag_in |-> None, mem_used |-> <<>>, file_log |-> <<>>,
     batches |-> <<>>, lists |-> <<>>]

Configs ==
    [enable_memory : BOOLEAN, manager_fn : BOOLEAN, auth_hook : BOOLEAN, usage_hook : BOOLEAN]

\* the constructor's defaults: enable_memory=True, manager_fn=None,
\* auth_hook=None, usage_hook=None
DefaultConfig ==
    [enable_memory |-> TRUE, manager_fn |-> FALSE, auth_hook |-> FALSE, usage_hook |-> FALSE]

PipeStart ==
    /\ fs = <<>>
    /\ chroma = <<>>
    /\ mem_managers = <<>>
    /\ built = [t \in Tenants |-> 0]
    /\ touched = [t \in Tenants |-> {}]
    /\ store_log = {}
    /\ req = [r \in Reqs |-> NewRequest]

NormStart ==
    /\ norm_in = <<>>
    /\ norm_out = SplitFiles(<<>>)

Init ==
    /\ cfg \in Configs
    /\ PipeStart
    /\ NormStart

Touch(tenant, colls) == touched' = [touched EXCEPT ![tenant] = @ \cup colls]

\* ------------------------------------------------------------------------
\* chat(): auth, body, _split_files
\* ------------------------------------------------------------------------
Terminal == {"done", "failed", "closed", "cancelled", "stream_error", "stream_aborted"}

Idle(r) == req[r].pc \in {"new", "retired"}

\* how a request enters chat(): the auth hook raises, the body is not a
\* ChatRequest (request.json() or ChatRequest(**body) raises), or both pass
EntryOutcomes == {"ok", "auth_raises", "malformed"}

EntryPcAuthIgnored(entry, files) ==
    IF entry = "malformed" THEN "failed" ELSE IF files # <<>> THEN "ingest" ELSE "memory"

EntryPcIngestSkipped(entry, files) == IF entry # "ok" THEN "failed" ELSE "memory"

\* where chat() goes after auth, body and _split_files: out with the
\* exception, to _ingest_files `if files`, else to the memory block
EntryPc(entry, files) ==
    IF entry # "ok" THEN "failed" ELSE IF files # <<>> THEN "ingest" ELSE "memory"

\* if self.auth_hook: await _maybe(self.auth_hook, request, tenant)
AuthEvents == IF cfg.auth_hook THEN <<"auth">> ELSE <<>>

\* env.sequential: requests arrive one after the other; env.tenants and
\* env.bodies: the tenants of the path and the bodies the clients send;
\* env.entry: what can happen before _split_files
Receive(r, env) ==
    /\ req[r].pc = "new"
    /\ env.sequential => \A o \in Reqs : Idle(o)
    /\ \E tenant \in env.tenants, entry \in env.entry :
         CASE entry = "auth_raises" ->
                \* the hook's exception leaves chat() before the body is read
                /\ cfg.auth_hook
                /\ req' = [req EXCEPT ![r] =
                       [@ EXCEPT !.pc = EntryPc(entry, <<>>), !.tenant = tenant,
                                 !.entry = entry,
                                 !.outcome = "auth_error", !.events = AuthEvents]]
           [] entry = "malformed" ->
                \* the exception of request.json() or of ChatRequest(**body) is
                \* not handled in chat(): the framework answers 500
                req' = [req EXCEPT ![r] =
                       [@ EXCEPT !.pc = EntryPc(entry, <<>>), !.tenant = tenant,
                                 !.entry = entry,
                                 !.outcome = "error", !.events = Append(AuthEvents, "body")]]
           [] OTHER ->
                \E body \in env.bodies :
                    LET split == SplitFiles(body.messages)
                    IN req' = [req EXCEPT ![r] =
                           [@ EXCEPT !.pc = EntryPc(entry, split.files),
                                     !.tenant = tenant, !.entry = entry,
                                     !.stream = body.stream, !.model = body.model,
                                     !.body = body.messages, !.norm = split.msgs,
                                     !.msgs = split.msgs, !.files = split.files,
                                     !.lists = <<split.msgs>>,
                                     !.events = AuthEvents \o <<"body", "split">>]]
    /\ UNCHANGED <<cfg, fs, chroma, mem_managers, built, touched, store_log, norm_vars>>

\* ------------------------------------------------------------------------
\* _ingest_files: one iteration of the loop over files
\* ------------------------------------------------------------------------
\* write_bytes succeeds or raises OSError; extract_text returns or raises
IngestOutcomes == {"ok", "write_raises", "extract_raises"}

IngestDocUnstripped(extracted, text, name) ==
    IF extracted /\ text # <<>> THEN <<Document(text, Some(name))>> ELSE <<>>

\* if text.strip(): docs.append(Document(page_content=text,
\* metadata={"name": file.name})), reached when nothing raised before
IngestDoc(extracted, text, name) ==
    IF extracted /\ Strip(text) # <<>> THEN <<Document(text, Some(name))>> ELSE <<>>

IngestFile(r, env) ==
    /\ req[r].pc = "ingest"
    /\ req[r].next_file <= Len(req[r].files)
    /\ \E io \in env.ingest :
         LET file == req[r].files[req[r].next_file]
             data == b64decode(file.data)[1]
             path == StoredPath(req[r].tenant, data, file.name)
             w == IF io = "write_raises" THEN [fs |-> fs, error |-> "OSError"]
                  ELSE WriteBytes(fs, path, data)
             extracted == w.error = "none" /\ io = "ok"
             text == IF extracted THEN ReadText(w.fs[path]) ELSE <<>>
             doc == IngestDoc(extracted, text, file.name)
         IN /\ fs' = w.fs
            /\ store_log' = store_log \cup
                   {[tenant |-> req[r].tenant, bytes |-> data, name |-> file.name,
                     path |-> path, error |-> w.error]}
            /\ req' = [req EXCEPT ![r] =
                   [@ EXCEPT !.next_file = @ + 1, !.docs = @ \o doc,
                             !.wrote = IF w.error = "none" THEN Append(@, path) ELSE @,
                             !.file_log = Append(@, [name |-> file.name,
                                                     stored |-> w.error = "none",
                                                     extracted |-> extracted,
                                                     text |-> text])]]
    /\ UNCHANGED <<cfg, chroma, mem_managers, built, touched, norm_vars>>

IndexBatchesPerDocument(docs) == [i \in 1..Len(docs) |-> <<docs[i]>>]

\* _ingest_files: the calls of vec.add_documents after the loop, each with
\* its batch: one call with all docs `if docs`, else none
IndexBatches(docs) == IF docs # <<>> THEN <<docs>> ELSE <<>>

\* _ingest_files: `if docs:` vec.add_documents(docs), after the loop
IngestIndex(r) ==
    /\ req[r].pc = "ingest"
    /\ req[r].next_file > Len(req[r].files)
    /\ IF IndexBatches(req[r].docs) # <<>>
       THEN /\ chroma' = AddDocuments(chroma, DocCollection(req[r].tenant),
                                      Concat(IndexBatches(req[r].docs)))
            /\ Touch(req[r].tenant, {DocCollection(req[r].tenant)})
       ELSE UNCHANGED <<chroma, touched>>
    /\ req' = [req EXCEPT ![r] =
           [@ EXCEPT !.pc = "memory", !.batches = @ \o IndexBatches(req[r].docs),
                     !.events = Append(@, "ingest")]]
    /\ UNCHANGED <<cfg, fs, mem_managers, built, store_log, norm_vars>>

\* ------------------------------------------------------------------------
\* _get_mem_manager, _retrieve_memories and the memory block of chat()
\* ------------------------------------------------------------------------
\* (manager, _search_mem, _store_mem): a new triple over the tenant's memory
\* collection; serial tells the tenant's n-th constructed triple from the others
NewTriple(managers, tenant, serial) ==
    [t \in DOMAIN managers \cup {tenant} |->
        IF t = tenant THEN [vec |-> MemCollection(tenant), serial |-> serial]
        ELSE managers[t]]

GetMemManagerRebuild(managers, tenant, serial) == NewTriple(managers, tenant, serial)

\* _get_mem_manager: the cached triple, constructed on the first call
GetMemManager(managers, tenant, serial) ==
    IF tenant \in DOMAIN managers THEN managers
    ELSE NewTriple(managers, tenant, serial)


\* what calling _get_mem_manager(tenant) does to the cache, the collections
\* (Chroma(...) opens the collection) and the construction count
UseMemManager(tenant) ==
    /\ mem_managers' = GetMemManager(mem_managers, tenant, built[tenant] + 1)
    /\ built' = IF mem_managers' = mem_managers THEN built
                ELSE [built EXCEPT ![tenant] = @ + 1]

MemoryStage(r) ==
    /\ req[r].pc = "memory"
    /\ IF ~cfg.enable_memory
       THEN /\ req' = [req EXCEPT ![r] = [@ EXCEPT !.pc = "rag"]]
            /\ UNCHANGED <<mem_managers, built, touched>>
       ELSE IF req[r].msgs = <<>>
       THEN \* msgs[-1] raises IndexError: the request fails
            /\ req' = [req EXCEPT ![r] = [@ EXCEPT !.pc = "failed", !.outcome = "error"]]
            /\ UNCHANGED <<mem_managers, built, touched>>
       ELSE LET coll == GetMemManager(mem_managers, req[r].tenant,
                                      built[req[r].tenant] + 1)[req[r].tenant].vec
                memories == PageContents(SimilaritySearch(chroma, coll, mem_top_k))
                mem_block == MemBlock(memories)
            IN /\ UseMemManager(req[r].tenant)
               /\ Touch(req[r].tenant, {coll})
               /\ req' = [req EXCEPT ![r] =
                      [@ EXCEPT !.pc = "rag", !.mem_block = mem_block,
                                !.msgs = InjectMemory(@, mem_block),
                                !.lists = Rebind(@, InjectMemory(req[r].msgs, mem_block)),
                                !.mem_used = Append(@, mem_managers'[req[r].tenant]),
                                !.events = Append(@, "mem_search")]]
    /\ UNCHANGED <<cfg, fs, chroma, store_log, norm_vars>>

\* ------------------------------------------------------------------------
\* _rag
\* ------------------------------------------------------------------------
RagStage(r) ==
    /\ req[r].pc = "rag"
    /\ IF req[r].msgs = <<>>
       THEN /\ req' = [req EXCEPT ![r] =
                   [@ EXCEPT !.pc = "dispatch", !.rag_in = Some(req[r].msgs),
                             !.events = Append(@, "rag")]]
            /\ UNCHANGED touched
       ELSE IF RagQuery(req[r].msgs) = <<>>
       THEN /\ req' = [req EXCEPT ![r] =
                   [@ EXCEPT !.pc = "dispatch", !.rag_in = Some(req[r].msgs),
                             !.events = Append(@, "rag")]]
            /\ Touch(req[r].tenant, {DocCollection(req[r].tenant)})
       ELSE LET docs == SimilaritySearch(chroma, DocCollection(req[r].tenant), rag_k)
            IN /\ req' = [req EXCEPT ![r] =
                      [@ EXCEPT !.pc = "dispatch", !.rag_docs = docs,
                                !.rag_in = Some(req[r].msgs),
                                !.msgs = RagInject(@, docs),
                                !.lists = Rebind(@, RagInject(req[r].msgs, docs)),
                                !.events = Append(@, "rag")]]
               /\ Touch(req[r].tenant, {DocCollection(req[r].tenant)})
    /\ UNCHANGED <<cfg, fs, chroma, mem_managers, built, store_log, norm_vars>>

\* ------------------------------------------------------------------------
\* _dispatch: acompletion returns or raises
\* ------------------------------------------------------------------------
ResolvedModelDefaultOnly(model) == default_model

\* req.model or self.default_model
ResolvedModel(model) == IF model # None /\ model[1] # <<>> THEN model[1] ELSE default_model

DispatchPcFailureIgnored(ok, stream) == IF stream THEN "stream" ELSE "buffered"

\* chat() after `await self._dispatch(...)`: out with the exception when it
\* raised, else to the buffered or the streaming path
DispatchPc(ok, stream) ==
    IF ~ok THEN "failed" ELSE IF stream THEN "stream" ELSE "buffered"

Dispatch(r, env) ==
    /\ req[r].pc = "dispatch"
    /\ \E ok \in env.upstream, usage \in env.usage :
         req' = [req EXCEPT ![r] =
             [@ EXCEPT !.pc = DispatchPc(ok, req[r].stream),
                       !.dispatched = Some(req[r].msgs),
                       !.upstream_model = Some(ResolvedModel(req[r].model)),
                       !.upstream_ok = ok,
                       !.usage = IF ok /\ ~req[r].stream THEN usage ELSE None,
                       !.outcome = IF ~ok THEN "error" ELSE IF req[r].stream THEN "streaming" ELSE "none",
                       !.events = Append(@, "dispatch")]]
    /\ UNCHANGED <<cfg, fs, chroma, mem_managers, built, touched, store_log, norm_vars>>

\* ------------------------------------------------------------------------
\* _write_memories applied to the state
\* ------------------------------------------------------------------------
\* await self._write_memories(tenant, conversation); the request goes to
\* pc_ok when it returns and to pc_raise when it raises
WriteBack(r, env, conversation, pc_ok, pc_raise, outcome_raise) ==
    \E ov \in env.override, ex \in env.extract, st \in env.store :
        LET w == WriteMemories(cfg.enable_memory, cfg.manager_fn, ov, ex, st)
            coll == GetMemManager(mem_managers, req[r].tenant,
                                  built[req[r].tenant] + 1)[req[r].tenant].vec
        IN /\ IF w.manager
              THEN UseMemManager(req[r].tenant) /\ Touch(req[r].tenant, {coll})
              ELSE UNCHANGED <<mem_managers, built, touched>>
           /\ chroma' = IF w.stored THEN AddDocuments(chroma, coll, MemoryDocs(w.memories))
                        ELSE chroma
           /\ req' = [req EXCEPT ![r] =
                  [@ EXCEPT !.pc = IF w.raised THEN pc_raise ELSE pc_ok,
                            !.outcome = IF w.raised THEN outcome_raise ELSE @,
                            !.wb_calls = Append(@,
                                [conversation |-> conversation, result |-> w,
                                 \* what each collaborator did when it was called
                                 ov |-> IF w.override_called THEN ov ELSE "not_called",
                                 ex |-> IF w.extractor # "none" THEN ex ELSE "not_called",
                                 st |-> IF w.store_called THEN st ELSE "not_called"]),
                            !.mem_used = IF w.manager
                                         THEN Append(@, mem_managers'[req[r].tenant]) ELSE @,
                            !.events = Append(@, "writeback")]]

\* ------------------------------------------------------------------------
\* chat(): the buffered path
\* ------------------------------------------------------------------------
BufferedWriteBack(r, env) ==
    /\ req[r].pc = "buffered"
    /\ WriteBack(r, env, AppendTurn(req[r].msgs, Turn("assistant", AssistantText)),
                 "buffered_usage", "failed", "error")
    /\ UNCHANGED <<cfg, fs, store_log, norm_vars>>

\* if self.usage_hook and upstream_iter.usage: the hook returns or raises
BufferedUsage(r, env) ==
    /\ req[r].pc = "buffered_usage"
    /\ IF cfg.usage_hook /\ req[r].usage # None
       THEN \E hook_ok \in env.hook :
              req' = [req EXCEPT ![r] =
                  [@ EXCEPT !.pc = IF hook_ok THEN "buffered_return" ELSE "failed",
                            !.outcome = IF hook_ok THEN @ ELSE "error",
                            !.usage_calls = Append(@, [tenant |-> req[r].tenant,
                                                       tokens |-> req[r].usage[1]]),
                            !.events = Append(@, "usage")]]
       ELSE req' = [req EXCEPT ![r] = [@ EXCEPT !.pc = "buffered_return"]]
    /\ UNCHANGED <<cfg, fs, chroma, mem_managers, built, touched, store_log, norm_vars>>

\* return JSONResponse(response_data)
BufferedReturn(r) ==
    /\ req[r].pc = "buffered_return"
    /\ req' = [req EXCEPT ![r] =
           [@ EXCEPT !.pc = "done", !.outcome = "ok", !.events = Append(@, "response")]]
    /\ UNCHANGED <<cfg, fs, chroma, mem_managers, built, touched, store_log, norm_vars>>

\* ------------------------------------------------------------------------
\* chat(): event_stream, the streaming path
\* ------------------------------------------------------------------------
\* one iteration of `async for chunk in upstream_iter`, up to its yield
AccumulateShared(requests, r, delta) ==
    LET last == CHOOSE o \in DOMAIN requests :
                    \A p \in DOMAIN requests : Len(requests[p].buf) <= Len(requests[o].buf)
    IN Append(requests[last].buf, delta)

\* buf.append(delta): buf is a local of the request's own event_stream call
Accumulate(requests, r, delta) == Append(requests[r].buf, delta)

StreamChunk(r, env) ==
    /\ req[r].pc = "stream"
    /\ Len(req[r].chunks) < MaxChunks
    /\ \E chunk \in env.chunks :
         req' = [req EXCEPT ![r] =
             [@ EXCEPT !.chunks = Append(@, chunk),
                       !.tokens = @ + Len(DeltaOf(chunk)),
                       !.buf = Accumulate(req, r, DeltaOf(chunk)),
                       !.frames = Append(@, ContentFrame(chunk))]]
    /\ UNCHANGED <<cfg, fs, chroma, mem_managers, built, touched, store_log, norm_vars>>

\* the provider's sequence is exhausted: yield "data: [DONE]\n\n"
StreamEnd(r) ==
    /\ req[r].pc = "stream"
    /\ req' = [req EXCEPT ![r] =
           [@ EXCEPT !.pc = "stream_done", !.frames = EmitDone(@),
                     !.events = Append(@, "done_frame")]]
    /\ UNCHANGED <<cfg, fs, chroma, mem_managers, built, touched, store_log, norm_vars>>

RaiseInStreamSwallowed(request) ==
    [request EXCEPT !.pc = "stream_done", !.frames = EmitDone(@),
                    !.events = @ \o <<"stream_error", "done_frame">>]

\* async for chunk in upstream_iter raises: nothing in event_stream catches
\* it, so the statements after the loop do not run
RaiseInStream(request) ==
    [request EXCEPT !.pc = "stream_error", !.events = Append(@, "stream_error")]

\* the provider's sequence raises: the generator ends with the exception
StreamError(r, env) ==
    /\ req[r].pc = "stream"
    /\ env.stream_error
    /\ req' = [req EXCEPT ![r] = RaiseInStream(@)]
    /\ UNCHANGED <<cfg, fs, chroma, mem_managers, built, touched, store_log, norm_vars>>

\* the client goes away while the generator is suspended at a yield: the
\* generator is closed there and nothing after the yield runs
ClientDisconnect(r, env) ==
    /\ env.disconnect
    /\ \/ req[r].pc = "stream" /\ Len(req[r].frames) > 0
       \/ req[r].pc = "stream_done"
    /\ req' = [req EXCEPT ![r] = [@ EXCEPT !.pc = "cancelled"]]
    /\ UNCHANGED <<cfg, fs, chroma, mem_managers, built, touched, store_log, norm_vars>>

\* after the terminal frame: await self._write_memories(...)
StreamWriteBack(r, env) ==
    /\ req[r].pc = "stream_done"
    /\ WriteBack(r, env, AppendTurn(req[r].msgs, Turn("assistant", Concat(req[r].buf))),
                 "stream_usage", "stream_aborted", "streaming")
    /\ UNCHANGED <<cfg, fs, store_log, norm_vars>>

\* if self.usage_hook: the hook returns or raises
StreamUsage(r, env) ==
    /\ req[r].pc = "stream_usage"
    /\ IF cfg.usage_hook
       THEN \E hook_ok \in env.hook :
              req' = [req EXCEPT ![r] =
                  [@ EXCEPT !.pc = IF hook_ok THEN "closed" ELSE "stream_aborted",
                            !.usage_calls = Append(@, [tenant |-> req[r].tenant,
                                                       tokens |-> req[r].tokens]),
                            !.events = Append(@, "usage")]]
       ELSE req' = [req EXCEPT ![r] = [@ EXCEPT !.pc = "closed"]]
    /\ UNCHANGED <<cfg, fs, chroma, mem_managers, built, touched, store_log, norm_vars>>

\* chat() has returned or raised, or the generator has ended: the request's
\* locals are gone
Retire(r) ==
    /\ req[r].pc \in Terminal
    /\ req' = [req EXCEPT ![r] = [NewRequest EXCEPT !.pc = "retired"]]
    /\ UNCHANGED <<cfg, fs, chroma, mem_managers, built, touched, store_log, norm_vars>>

\* ------------------------------------------------------------------------
\* Specifications
\* ------------------------------------------------------------------------
Handle(r, env) ==
    \/ Receive(r, env)
    \/ IngestFile(r, env)
    \/ IngestIndex(r)
    \/ MemoryStage(r)
    \/ RagStage(r)
    \/ Dispatch(r, env)
    \/ BufferedWriteBack(r, env)
    \/ BufferedUsage(r, env)
    \/ BufferedReturn(r)
    \/ StreamChunk(r, env)
    \/ StreamEnd(r)
    \/ StreamError(r, env)
    \/ ClientDisconnect(r, env)
    \/ StreamWriteBack(r, env)
    \/ StreamUsage(r, env)
    \/ Retire(r)

\* Everything the environment of the proxy can do
FullEnv ==
    [sequential |-> FALSE, tenants |-> Tenants, bodies |-> Bodies, entry |-> EntryOutcomes,
     ingest |-> IngestOutcomes, upstream |-> BOOLEAN, usage |-> {None, Some(7)},
     override |-> OverrideOutcomes, extract |-> ExtractOutcomes, store |-> StoreOutcomes,
     hook |-> BOOLEAN, chunks |-> ChunkPool, stream_error |-> TRUE, disconnect |-> TRUE]

\* The pipeline: requests arrive one after the other
MainEnv ==
    [FullEnv EXCEPT !.sequential = TRUE, !.ingest = {"ok"},
                    !.chunks = {[delta |-> Some([content |-> Some(<<"o">>)])]}]

Next == \E r \in Reqs : Handle(r, MainEnv)

Spec == Init /\ [][Next]_vars

\* Concurrent requests: two text-only requests, buffered or streamed, arrive
\* at any time and interleave at every await of chat() and event_stream()
ConcBodies == {Body(<<User(StrContent(Hi))>>, None, st) : st \in BOOLEAN}

ConcEnv ==
    [FullEnv EXCEPT !.tenants = {TenantA, TenantB}, !.bodies = ConcBodies,
                    !.entry = {"ok"}, !.upstream = {TRUE}, !.usage = {Some(7)},
                    !.hook = {TRUE},
                    !.chunks = {[delta |-> Some([content |-> Some(<<"o">>)])]},
                    !.stream_error = FALSE, !.disconnect = FALSE]

ConcInit ==
    /\ cfg \in {c \in Configs : c.enable_memory /\ ~c.auth_hook}
    /\ PipeStart
    /\ NormStart

ConcNext ==
    \E r \in Reqs :
        \/ Receive(r, ConcEnv)
        \/ MemoryStage(r)
        \/ RagStage(r)
        \/ Dispatch(r, ConcEnv)
        \/ BufferedWriteBack(r, ConcEnv)
        \/ BufferedUsage(r, ConcEnv)
        \/ BufferedReturn(r)
        \/ StreamChunk(r, ConcEnv)
        \/ StreamEnd(r)
        \/ StreamWriteBack(r, ConcEnv)
        \/ StreamUsage(r, ConcEnv)

SpecConc == ConcInit /\ [][ConcNext]_vars

\* The streaming relay: streamed requests, one after the other, whose
\* provider sends every kind of chunk and whose client reads to the end
StreamBodies == {Body(<<User(StrContent(Hi))>>, None, TRUE)}

StreamEnv ==
    [FullEnv EXCEPT !.sequential = TRUE, !.tenants = {TenantA}, !.bodies = StreamBodies,
                    !.entry = {"ok"}, !.upstream = {TRUE},
                    !.stream_error = FALSE, !.disconnect = FALSE]

StreamInit ==
    /\ cfg \in {c \in Configs : ~c.auth_hook}
    /\ PipeStart
    /\ NormStart

StreamNext ==
    \E r \in Reqs :
        \/ Receive(r, StreamEnv)
        \/ MemoryStage(r)
        \/ RagStage(r)
        \/ Dispatch(r, StreamEnv)
        \/ StreamChunk(r, StreamEnv)
        \/ StreamEnd(r)
        \/ StreamWriteBack(r, StreamEnv)
        \/ StreamUsage(r, StreamEnv)
        \/ Retire(r)

SpecStream == StreamInit /\ [][StreamNext]_vars

\* The streaming relay whose generator is resumed as long as it can run: the
\* client keeps consuming frames and the event loop keeps scheduling the
\* request's coroutine
StreamRun(r) ==
    \/ MemoryStage(r)
    \/ RagStage(r)
    \/ Dispatch(r, StreamEnv)
    \/ StreamChunk(r, StreamEnv)
    \/ StreamEnd(r)
    \/ StreamWriteBack(r, StreamEnv)
    \/ StreamUsage(r, StreamEnv)

SpecStreamLive ==
    StreamInit /\ [][StreamNext]_vars /\ \A r \in Reqs : WF_vars(StreamRun(r))

\* Concurrent streams: two streamed requests of the same or of different
\* tenants whose chunks, of different texts, interleave in any order
StreamConcEnv ==
    [FullEnv EXCEPT !.tenants = {TenantA, TenantB}, !.bodies = StreamBodies,
                    !.entry = {"ok"}, !.upstream = {TRUE}, !.hook = {TRUE},
                    !.extract = {"memories"}, !.store = {"ok"},
                    !.chunks = ChunkPool \ {[delta |-> None]},
                    !.stream_error = FALSE, !.disconnect = FALSE]

StreamConcInit ==
    /\ cfg = [DefaultConfig EXCEPT !.usage_hook = TRUE]
    /\ PipeStart
    /\ NormStart

StreamConcNext ==
    \E r \in Reqs :
        \/ Receive(r, StreamConcEnv)
        \/ MemoryStage(r)
        \/ RagStage(r)
        \/ Dispatch(r, StreamConcEnv)
        \/ StreamChunk(r, StreamConcEnv)
        \/ StreamEnd(r)
        \/ StreamWriteBack(r, StreamConcEnv)
        \/ StreamUsage(r, StreamConcEnv)

SpecStreamConc == StreamConcInit /\ [][StreamConcNext]_vars

\* Stored paths: two tenants, one of whose identifiers continues the other's
\* with an underscore and a fingerprint, upload files whose names hold
\* underscores, fingerprints and path separators
TenantAF == TenantA \o <<"_">> \o Sha8(SmallBytes)

NameFN == Sha8(SmallBytes) \o <<"_">> \o NameN

NameUp == <<"x", "/", ".", ".", "/", ".", ".", "/", "e">>

PathBodies ==
    {Body(<<User(PartsContent(<<FilePart(FileData(name, B64(bytes)))>>))>>, None, FALSE) :
        name \in {NameN, NameFN, NameUp}, bytes \in {SmallBytes, SpaceBytes}}

PathEnv ==
    [FullEnv EXCEPT !.tenants = {TenantA, TenantAF}, !.bodies = PathBodies,
                    !.entry = {"ok"}, !.ingest = {"ok"}]

PathInit ==
    /\ cfg = DefaultConfig
    /\ PipeStart
    /\ NormStart

PathNext ==
    \E r \in Reqs : Receive(r, PathEnv) \/ IngestFile(r, PathEnv) \/ IngestIndex(r)

SpecPaths == PathInit /\ [][PathNext]_vars

\* Ingestion alone: two requests with attachments arrive at any time and the
\* iterations of their _ingest_files loops interleave
IngestBodies ==
    { Body(<<User(PartsContent(<<FilePart(FileSmall)>>))>>, None, FALSE),
      Body(<<User(PartsContent(<<FilePart(FileSmall), TextPart(Some(Hi)),
                                 FilePart(FileBlank)>>))>>, None, FALSE),
      Body(<<User(PartsContent(<<FilePart(FileExact), FilePart(FileSmall)>>))>>, None, FALSE) }

IngestEnv ==
    [FullEnv EXCEPT !.tenants = {TenantA, TenantB}, !.bodies = IngestBodies]

IngestInit ==
    /\ cfg = DefaultConfig
    /\ PipeStart
    /\ NormStart

IngestNext ==
    \E r \in Reqs : Receive(r, IngestEnv) \/ IngestFile(r, IngestEnv) \/ IngestIndex(r)

SpecIngest == IngestInit /\ [][IngestNext]_vars

\* ------------------------------------------------------------------------
\* The normaliser on its own: a client composes req.messages turn by turn
\* and part by part, and _split_files is applied to what it has composed.
\* ------------------------------------------------------------------------
NormInit ==
    /\ cfg = DefaultConfig
    /\ PipeStart
    /\ NormStart

NormAddTurn ==
    /\ InputItems(norm_in) < MaxInputItems
    /\ \E role \in Roles, content \in NormFreshContents :
         norm_in' = Append(norm_in, ChatMessage(role, content))
    /\ norm_out' = SplitFiles(norm_in')
    /\ UNCHANGED pipe_vars

NormAddPart ==
    /\ InputItems(norm_in) < MaxInputItems
    /\ Len(norm_in) > 0
    /\ ~Last(norm_in).content.is_str
    /\ \E part \in NormParts :
         norm_in' = [norm_in EXCEPT ![Len(norm_in)].content.parts = Append(@, part)]
    /\ norm_out' = SplitFiles(norm_in')
    /\ UNCHANGED pipe_vars

NormNext == NormAddTurn \/ NormAddPart

SpecNorm == NormInit /\ [][NormNext]_vars

\* ------------------------------------------------------------------------
\* Properties of the normaliser (checked under SpecNorm)
\* ------------------------------------------------------------------------
IsTextPart(part) == part.type = "text"

IsFileAttachment(part) == part.file_data # None

NoFileParts(msgs) ==
    \A i \in 1..Len(msgs) : \A j \in 1..Len(msgs[i].content.parts) :
        ~IsFileAttachment(msgs[i].content.parts[j])

\* the texts of a part list's text parts, in order, an absent text as ""
TextsInOrder(parts) ==
    LET tp == SelectSeq(parts, IsTextPart)
    IN [j \in 1..Len(tp) |-> IF tp[j].text = None THEN <<>> ELSE tp[j].text[1]]

ScalarOf(msg) ==
    IF msg.content.is_str THEN msg.content.str ELSE Join(NL, TextsInOrder(msg.content.parts))

HasText(msg) == msg.content.is_str \/ \E j \in 1..Len(msg.content.parts) : IsTextPart(msg.content.parts[j])

OnlyFileAttachments(msg) ==
    /\ ~msg.content.is_str
    /\ Len(msg.content.parts) > 0
    /\ \A j \in 1..Len(msg.content.parts) :
         ~IsTextPart(msg.content.parts[j]) /\ IsFileAttachment(msg.content.parts[j])

NotOnlyFileAttachments(msg) == ~OnlyFileAttachments(msg)

\* out is exactly one turn per message of kept, in order, coerced to text
TurnsAre(out, kept) ==
    /\ Len(out) = Len(kept)
    /\ \A i \in 1..Len(kept) : out[i] = Turn(kept[i].role, ScalarOf(kept[i]))

\* C7 as stated: without file parts, the output has the input's length, turn i
\* keeps role i and carries the scalar text or the newline-join of the text parts.
C7_SameLengthCoerced ==
    NoFileParts(norm_in) =>
        /\ norm_out.files = <<>>
        /\ TurnsAre(norm_out.msgs, norm_in)

\* C7 amended: without file parts, the detached file list is empty and the
\* output is, in order, one turn for each input turn that has scalar text or at
\* least one text part (role kept, content the scalar text or the newline-join
\* of the text parts in order); a part list with no text part yields no turn.
C7_TextTurnsCoerced ==
    NoFileParts(norm_in) =>
        /\ norm_out.files = <<>>
        /\ TurnsAre(norm_out.msgs, SelectSeq(norm_in, HasText))

\* C7 witness: a file-free conversation with a turn of two text parts, joined
\* in order, and a part-list turn without text that is left out.
C7_Witness ==
    /\ NoFileParts(norm_in)
    /\ Len(norm_in) = 2
    /\ norm_in[1].content.parts = <<TextPart(Some(Yo)), TextPart(Some(Hi))>>
    /\ norm_in[2].content = PartsContent(<<>>)
    /\ norm_out.msgs = <<Turn(norm_in[1].role, Yo \o NL \o Hi)>>
    /\ norm_out.files = <<>>

\* C8 as stated: file-only turns are omitted, every other turn appears once in
\* order, and no emitted turn has empty content.
C8_OnlyFileTurnsDropped ==
    /\ TurnsAre(norm_out.msgs, SelectSeq(norm_in, NotOnlyFileAttachments))
    /\ \A i \in 1..Len(norm_out.msgs) : norm_out.msgs[i].content # <<>>

\* C8 amended: a part-list turn without a text part (only file attachments,
\* only images, or no parts) is omitted, every other turn appears exactly once
\* in order, and an emitted turn has empty content only when its scalar text is
\* empty or its single text part is empty.
C8_TextlessTurnsDropped ==
    LET kept == SelectSeq(norm_in, HasText)
    IN /\ Len(norm_out.msgs) = Len(kept)
       /\ \A i \in 1..Len(kept) :
            /\ norm_out.msgs[i].role = kept[i].role
            /\ norm_out.msgs[i].content = ScalarOf(kept[i])
            /\ norm_out.msgs[i].content = <<>> =>
                 \/ kept[i].content.is_str /\ kept[i].content.str = <<>>
                 \/ /\ ~kept[i].content.is_str
                    /\ TextsInOrder(kept[i].content.parts) = << <<>> >>
       /\ \A i \in 1..Len(norm_in) :
            OnlyFileAttachments(norm_in[i]) => ~HasText(norm_in[i])

\* C8 witness: a file-only turn between two text turns is left out and the
\* two others keep their order.
C8_Witness ==
    /\ Len(norm_in) = 3
    /\ norm_in[1].content = StrContent(Hi)
    /\ norm_in[2].content.parts = <<FilePart(FileSmall)>>
    /\ norm_in[3].content = StrContent(<<>>)
    /\ norm_out.msgs = <<Turn(norm_in[1].role, Hi), Turn(norm_in[3].role, <<>>)>>
    /\ norm_out.files = <<FileSmall>>

\* ------------------------------------------------------------------------
\* Properties of the pipeline (checked under Spec)
\* ------------------------------------------------------------------------
Active(r) == req[r].pc \notin {"new", "retired"}

WasDispatched(r) == req[r].dispatched # None

RECURSIVE IsSubsequence(_, _)
\* a occurs in b, in order
IsSubsequence(a, b) ==
    IF Len(a) = 0 THEN TRUE
    ELSE IF Len(b) = 0 THEN FALSE
    ELSE IF a[1] = b[1] THEN IsSubsequence(Tail(a), Tail(b))
    ELSE IsSubsequence(a, Tail(b))

\* C1: when a memory block and a retrieval block are both injected, the
\* conversation sent upstream ends with [memory system turn, retrieval system
\* turn, original final turn], in that order.
C1_MemoryThenRetrievalThenFinal ==
    \A r \in Reqs :
        (WasDispatched(r) /\ req[r].mem_block # <<>> /\ req[r].rag_docs # <<>>) =>
            LET d == req[r].dispatched[1]
                n == Len(d)
            IN /\ n >= 3
               /\ d[n] = Last(req[r].norm)
               /\ d[n - 1].role = "system"
               /\ d[n - 1].content =
                      RAG_PREFIX \o Join(<<"\n", "\n">>, PageContents(req[r].rag_docs))
               /\ d[n - 2] = Turn("system", MEM_PREFIX \o req[r].mem_block)
               /\ SubSeq(d, 1, n - 3) = Front(req[r].norm)

\* C1 witness: a request was sent upstream with both blocks injected.
C1_Witness ==
    \E r \in Reqs :
        /\ WasDispatched(r)
        /\ req[r].mem_block # <<>>
        /\ req[r].rag_docs # <<>>
        /\ Len(req[r].dispatched[1]) = Len(req[r].norm) + 2

\* C2: the conversation sent upstream contains the normalised turns as a
\* subsequence in order, has at most two more turns, and ends with the final
\* normalised turn.
C2_TurnOrderPreserved ==
    \A r \in Reqs :
        WasDispatched(r) =>
            LET d == req[r].dispatched[1]
                n == Len(req[r].norm)
            IN /\ IsSubsequence(req[r].norm, d)
               /\ Len(d) >= n
               /\ Len(d) <= n + 2
               /\ n > 0 => Last(d) = Last(req[r].norm)
               /\ n = 0 => d = <<>>

\* C2 witness: a two-turn conversation was sent upstream with two synthetic
\* turns added.
C2_Witness ==
    \E r \in Reqs :
        /\ WasDispatched(r)
        /\ Len(req[r].norm) = 2
        /\ Len(req[r].dispatched[1]) = 4

\* C3: for distinct tenants, the collections one tenant's requests open, read
\* or write are disjoint from those of the other's.
C3_TenantCollectionsDisjoint ==
    \A a \in Tenants, b \in Tenants :
        a # b => touched[a] \cap touched[b] = {}

\* C4: once the upstream provider has returned a completion, nothing
\* that runs after it makes the request fail: a buffered request is not answered
\* with an error, and a streamed one keeps every frame it was sent.
C4_SideEffectsNeverFailResponse ==
    \A r \in Reqs :
        req[r].upstream_ok =>
            /\ req[r].outcome # "error"
            /\ req[r].pc \in {"stream_usage", "stream_aborted", "closed"} =>
                   /\ Len(req[r].frames) = Len(req[r].chunks) + 1
                   /\ Last(req[r].frames) = DoneFrame

StreamCompleted(r) == req[r].pc \in {"closed", "stream_aborted"}

StreamExhausted(r) == req[r].pc \in {"stream_done", "stream_usage", "closed", "stream_aborted"}

\* C5: a streamed response whose chunk sequence ends without error and whose
\* client reads every frame carries the terminal frame exactly once, after all
\* content frames and as its last frame, and write-back is invoked exactly once
\* for it, whatever the number of chunks.
C5_DoneOnceWriteBackOnce ==
    \A r \in Reqs :
        /\ \A i \in 1..Len(req[r].frames) :
               req[r].frames[i] = DoneFrame => i = Len(req[r].frames)
        /\ StreamExhausted(r) =>
               req[r].frames =
                   [i \in 1..Len(req[r].chunks) |-> ContentFrame(req[r].chunks[i])]
                   \o <<DoneFrame>>
        /\ Len(req[r].wb_calls) <= 1
        /\ (req[r].stream /\ StreamCompleted(r)) => Len(req[r].wb_calls) = 1

\* C5 witness: a stream of two chunks has ended and write-back has been invoked.
C5_Witness ==
    \E r \in Reqs :
        /\ req[r].pc = "closed"
        /\ Len(req[r].chunks) = 2
        /\ Len(req[r].frames) = 3
        /\ Len(req[r].wb_calls) = 1

\* C6: when the client disconnects before the provider's sequence is
\* exhausted, write-back is still attempted and the configured usage callback
\* is still invoked.
C6_DisconnectStillWritesBack ==
    \A r \in Reqs :
        (req[r].pc = "cancelled" /\ Last(req[r].frames) # DoneFrame) =>
            /\ Len(req[r].wb_calls) >= 1
            /\ cfg.usage_hook => Len(req[r].usage_calls) >= 1

RECURSIVE Attachments(_)
\* every file attachment of a part list, in order
Attachments(parts) ==
    IF Len(parts) = 0 THEN <<>>
    ELSE (IF IsFileAttachment(parts[1]) THEN <<parts[1].file_data[1]>> ELSE <<>>)
         \o Attachments(Tail(parts))

RECURSIVE BodyAttachments(_)
BodyAttachments(messages) ==
    IF Len(messages) = 0 THEN <<>>
    ELSE Attachments(messages[1].content.parts) \o BodyAttachments(Tail(messages))

\* the payload decodes and its decoded length is at most the ceiling
WithinCeiling(fd) == fd.data.padding_ok /\ fd.data.encodes.len <= max_upload_bytes

AllDocuments == UNION {{chroma[c][i] : i \in 1..Len(chroma[c])} : c \in DOMAIN chroma}

Stored == {e \in store_log : e.error = "none"}

\* C10: however often, and however interleaved, the same bytes are ingested
\* under the same name for the same tenant, there is exactly one stored path for
\* them, it holds exactly those bytes, and no write fails because the path exists.
C10_IngestIdempotent ==
    /\ \A e \in store_log : e.error # "FileExistsError"
    /\ \A e \in Stored :
         /\ e.path \in DOMAIN fs
         /\ fs[e.path] = e.bytes
         /\ Cardinality({x.path : x \in {y \in Stored :
                 y.tenant = e.tenant /\ y.bytes = e.bytes /\ y.name = e.name}}) = 1
    /\ \A r \in Reqs : \A i \in 1..Len(req[r].wrote) :
         /\ req[r].wrote[i] \in DOMAIN fs
         /\ \E e \in Stored : e.tenant = req[r].tenant /\ e.path = req[r].wrote[i]

\* C10 witness: two requests of one tenant, both in their ingestion loop, have
\* each written the same bytes under the same name, and one path holds them.
C10_Witness ==
    /\ req["r1"].pc = "ingest"
    /\ req["r2"].pc = "ingest"
    /\ req["r1"].tenant = req["r2"].tenant
    /\ req["r1"].files[1] = FileSmall
    /\ req["r2"].files[1] = FileSmall
    /\ Len(req["r1"].wrote) = 1
    /\ req["r1"].wrote = req["r2"].wrote
    /\ DOMAIN fs = {req["r1"].wrote[1]}
    /\ fs[req["r1"].wrote[1]] = SmallBytes

\* ------------------------------------------------------------------------
\* Properties of the entry of chat() (checked under Spec)
\* ------------------------------------------------------------------------
\* nothing of the pipeline has run for the request: no file written, no
\* collection searched or extended, no memory manager looked up or built, no
\* upstream call, no write-back, no usage callback
NoSideEffects(r) ==
    /\ req[r].wrote = <<>>
    /\ req[r].file_log = <<>>
    /\ req[r].docs = <<>>
    /\ req[r].mem_used = <<>>
    /\ req[r].rag_in = None
    /\ req[r].dispatched = None
    /\ req[r].wb_calls = <<>>
    /\ req[r].usage_calls = <<>>
    /\ \A i \in 1..Len(req[r].events) : req[r].events[i] \in {"auth", "body"}

\* C13: a request whose auth hook raised has stored no file, has touched no
\* retrieval or memory index, has built no memory manager, has not called the
\* upstream provider, and has had no write-back and no usage callback; it
\* ends there, its body unread.
C13_AuthFailureNoSideEffects ==
    \A r \in Reqs :
        req[r].entry = "auth_raises" =>
            /\ cfg.auth_hook
            /\ req[r].pc = "failed"
            /\ req[r].events = <<"auth">>
            /\ NoSideEffects(r)

\* C13 witness: a request was refused by the auth hook after another request
\* of the proxy had stored a file and indexed it.
C13_Witness ==
    \E r \in Reqs :
        /\ req[r].entry = "auth_raises"
        /\ req[r].pc = "failed"
        /\ fs # <<>>
        /\ chroma # <<>>

\* C18: a request with a malformed body is answered with a client error, and
\* nothing of the pipeline has run for it.
C18_MalformedBodyClientError ==
    \A r \in Reqs :
        req[r].entry = "malformed" =>
            /\ req[r].outcome = "client_error"
            /\ req[r].pc = "failed"
            /\ NoSideEffects(r)

\* ------------------------------------------------------------------------
\* Properties of _rag (checked under Spec)
\* ------------------------------------------------------------------------
\* _rag has returned for the request
RagReturned(r) == req[r].rag_in # None

\* the contents of the search results, joined by blank lines
BlankLineJoined(docs) == Join(<<"\n", "\n">>, [i \in 1..Len(docs) |-> docs[i].page_content])

\* C11: _rag returns its input unchanged when the input is empty, when the
\* final turn's text is empty, or when the search returned nothing; otherwise
\* it returns the input with one system turn, the results' contents joined by
\* blank lines, inserted at the second-to-last position, all input turns kept
\* in order.
C11_RagUnchangedOrOneBlock ==
    \A r \in Reqs :
        RagReturned(r) =>
            LET in == req[r].rag_in[1]
                out == req[r].msgs
                n == Len(in)
            IN IF in = <<>> \/ Last(in).content = <<>> \/ req[r].rag_docs = <<>>
               THEN /\ out = in
                    /\ (in = <<>> \/ Last(in).content = <<>>) => req[r].rag_docs = <<>>
               ELSE /\ Len(out) = n + 1
                    /\ SubSeq(out, 1, n - 1) = SubSeq(in, 1, n - 1)
                    /\ out[n + 1] = in[n]
                    /\ out[n].role = "system"
                    /\ out[n].content = RAG_PREFIX \o BlankLineJoined(req[r].rag_docs)

\* C11 witness: _rag inserted a block of two results into a conversation of
\* two turns.
C11_Witness ==
    \E r \in Reqs :
        /\ RagReturned(r)
        /\ Len(req[r].rag_in[1]) = 2
        /\ Len(req[r].rag_docs) = 2
        /\ Len(req[r].msgs) = 3

\* ------------------------------------------------------------------------
\* Properties of the memory-manager cache (checked under SpecConc)
\* ------------------------------------------------------------------------
\* C12: however concurrent requests interleave, a tenant's triple is
\* constructed at most once, the cache holds that first triple, and every
\* memory retrieval and every write-back of the tenant's requests used it.
C12_OneTriplePerTenant ==
    /\ \A t \in Tenants : built[t] <= 1
    /\ \A t \in Tenants : built[t] = 1 <=> t \in DOMAIN mem_managers
    /\ \A t \in DOMAIN mem_managers : mem_managers[t].serial = 1
    /\ \A r \in Reqs : \A i \in 1..Len(req[r].mem_used) :
           /\ req[r].tenant \in DOMAIN mem_managers
           /\ req[r].mem_used[i] = mem_managers[req[r].tenant]

\* C12 witness: two requests of one tenant are in flight together; each has
\* retrieved memories and one has also written back, while the other is
\* still between its retrieval and its write-back.
C12_Witness ==
    /\ req["r1"].tenant = req["r2"].tenant
    /\ req["r1"].pc = "buffered"
    /\ Len(req["r1"].mem_used) = 1
    /\ req["r2"].pc = "buffered_usage"
    /\ Len(req["r2"].mem_used) = 2
    /\ built[req["r1"].tenant] = 1

\* ------------------------------------------------------------------------
\* Properties of the order of the stages (checked under Spec)
\* ------------------------------------------------------------------------
RECURSIVE Pos(_, _)
\* the index of the first e in events, 0 when there is none
Pos(events, e) ==
    IF events = <<>> THEN 0
    ELSE IF events[1] = e THEN 1
    ELSE LET rest == Pos(Tail(events), e) IN IF rest = 0 THEN 0 ELSE 1 + rest

\* b has happened only after a
Before(events, a, b) == Pos(events, b) # 0 => (Pos(events, a) # 0 /\ Pos(events, a) < Pos(events, b))

\* C14: in one request the provider is called only after memory retrieval
\* and _rag have finished, and write-back begins only after the response has
\* been handed to the client: the completion in buffered mode, the terminal
\* frame in streaming mode.
C14_StagesStrictlyOrdered ==
    \A r \in Reqs :
        LET ev == req[r].events
        IN /\ Before(ev, "rag", "dispatch")
           /\ cfg.enable_memory => Before(ev, "mem_search", "rag")
           /\ Before(ev, "rag", "writeback")
           /\ Before(ev, "dispatch", "writeback")
           /\ req[r].stream => Before(ev, "done_frame", "writeback")
           /\ ~req[r].stream => Before(ev, "response", "writeback")

\* ------------------------------------------------------------------------
\* Properties of the buffered path (checked under Spec)
\* ------------------------------------------------------------------------
\* chat() has returned or raised for a buffered request the provider answered
BufferedEnded(r) == ~req[r].stream /\ req[r].upstream_ok /\ req[r].pc \in {"done", "failed"}

\* C15: a buffered request the provider answered, with a usage callback
\* configured, has the callback invoked exactly once with its tenant, after
\* write-back was invoked with the dispatched conversation followed by the
\* assistant turn.
C15_BufferedUsageOnce ==
    \A r \in Reqs :
        (BufferedEnded(r) /\ cfg.usage_hook) =>
            /\ Len(req[r].usage_calls) = 1
            /\ req[r].usage_calls[1].tenant = req[r].tenant
            /\ Len(req[r].wb_calls) = 1
            /\ req[r].wb_calls[1].conversation =
                   req[r].dispatched[1] \o <<Turn("assistant", AssistantText)>>
            /\ Before(req[r].events, "writeback", "usage")

\* ------------------------------------------------------------------------
\* Properties of the streaming relay (checked under SpecStream)
\* ------------------------------------------------------------------------
\* the text a chunk carries: its delta's content, nothing when the delta or
\* its content is absent or null
ChunkText(chunk) ==
    IF chunk.delta # None /\ chunk.delta[1].content # None
    THEN chunk.delta[1].content[1] ELSE <<>>

RECURSIVE AllText(_)
\* the texts of the chunks, one after the other
AllText(chunks) ==
    IF chunks = <<>> THEN <<>> ELSE ChunkText(chunks[1]) \o AllText(Tail(chunks))

\* C16: a streamed response carries one content frame per chunk in arrival
\* order; the assistant content passed to write-back is the chunks' text
\* deltas concatenated in arrival order, an absent or null delta counting as
\* empty; and the token count passed to the usage callback is the summed
\* length of those deltas.
C16_StreamFramesAndAccumulation ==
    \A r \in Reqs :
        req[r].stream =>
            /\ Len(req[r].frames) >= Len(req[r].chunks)
            /\ \A i \in 1..Len(req[r].chunks) :
                   req[r].frames[i] = [kind |-> "data", payload |-> <<req[r].chunks[i]>>]
            /\ \A i \in 1..Len(req[r].wb_calls) :
                   req[r].wb_calls[i].conversation =
                       req[r].dispatched[1] \o
                       <<[role |-> "assistant", content |-> AllText(req[r].chunks)]>>
            /\ \A i \in 1..Len(req[r].usage_calls) :
                   req[r].usage_calls[i].tokens = Len(AllText(req[r].chunks))

\* C16 witness: a stream of a chunk with null content and a chunk with a
\* two-character text has ended; write-back and the usage callback have run.
C16_Witness ==
    \E r \in Reqs :
        /\ req[r].pc = "closed"
        /\ req[r].chunks = <<[delta |-> <<[content |-> <<>>]>>],
                             [delta |-> <<[content |-> <<(<<"k", "!">>)>>]>>]>>
        /\ Len(req[r].wb_calls) = 1
        /\ Len(req[r].usage_calls) = 1
        /\ req[r].usage_calls[1].tokens = 2

\* ------------------------------------------------------------------------
\* Properties of the upstream call (checked under Spec)
\* ------------------------------------------------------------------------
\* how often the request called the upstream provider
DispatchCount(r) == Cardinality({i \in 1..Len(req[r].events) : req[r].events[i] = "dispatch"})

\* the request's call of the upstream provider raised
DispatchFailed(r) == req[r].dispatched # None /\ ~req[r].upstream_ok

\* C17: a request calls the upstream provider at most once; when the call
\* fails the request fails with it, the provider is not called again, nothing
\* is relayed, and neither write-back nor the usage callback is invoked.
C17_DispatchOnceFailurePropagates ==
    \A r \in Reqs :
        /\ DispatchCount(r) <= 1
        /\ DispatchCount(r) = 1 <=> req[r].dispatched # None
        /\ DispatchFailed(r) =>
               /\ req[r].pc = "failed"
               /\ req[r].outcome = "error"
               /\ req[r].frames = <<>>
               /\ req[r].wb_calls = <<>>
               /\ req[r].usage_calls = <<>>
               /\ Last(req[r].events) = "dispatch"

\* C17 witness: with memory and a usage callback configured, a request's
\* upstream call has failed.
C17_Witness ==
    \E r \in Reqs :
        /\ DispatchFailed(r)
        /\ cfg.enable_memory
        /\ cfg.usage_hook
        /\ req[r].pc = "failed"
        /\ Len(req[r].mem_used) = 1

\* ------------------------------------------------------------------------
\* Properties of the resolved model (checked under Spec)
\* ------------------------------------------------------------------------
\* C19 as stated: the provider gets the request's model whenever the request
\* supplies one, and the configured default otherwise.
C19_SuppliedModelUsed ==
    \A r \in Reqs :
        req[r].dispatched # None =>
            req[r].upstream_model =
                <<IF req[r].model # None THEN req[r].model[1] ELSE default_model>>

\* C19: the provider gets the request's model whenever the request supplies
\* a non-empty one, and the configured default when the request supplies none
\* or the empty string.
C19_NonEmptyModelUsed ==
    \A r \in Reqs :
        req[r].dispatched # None =>
            /\ (req[r].model # None /\ req[r].model[1] # <<>>) =>
                   req[r].upstream_model = <<req[r].model[1]>>
            /\ (req[r].model = None \/ req[r].model = <<(<<>>)>>) =>
                   req[r].upstream_model = <<default_model>>

\* C19 witness: a request that names a model was sent upstream with it.
C19_Witness ==
    \E r \in Reqs :
        /\ req[r].model = <<(<<"g">>)>>
        /\ req[r].upstream_model = <<(<<"g">>)>>
        /\ req[r].dispatched # None

\* ------------------------------------------------------------------------
\* Properties of the ingestion loop (checked under SpecIngest)
\* ------------------------------------------------------------------------
\* _ingest_files has returned for the request
IngestReturned(r) == req[r].files # <<>> /\ req[r].pc \notin {"new", "ingest", "retired"}

\* the text has a character that is not whitespace
HasNonBlank(text) == \E i \in 1..Len(text) : text[i] \notin {" ", "\t", "\n", "\r"}

RECURSIVE DocsOfNonEmpty(_)
\* one Document, tagged with the file's name, per logged file that was
\* extracted to a text that is not empty
DocsOfNonEmpty(log) ==
    IF log = <<>> THEN <<>>
    ELSE (IF log[1].extracted /\ log[1].text # <<>>
          THEN <<[page_content |-> log[1].text, name |-> <<log[1].name>>]>>
          ELSE <<>>) \o DocsOfNonEmpty(Tail(log))

RECURSIVE DocsOfNonBlank(_)
\* one Document, tagged with the file's name, per logged file that was
\* extracted to a text that is not blank
DocsOfNonBlank(log) ==
    IF log = <<>> THEN <<>>
    ELSE (IF log[1].extracted /\ HasNonBlank(log[1].text)
          THEN <<[page_content |-> log[1].text, name |-> <<log[1].name>>]>>
          ELSE <<>>) \o DocsOfNonBlank(Tail(log))

\* the documents of docs occur in the collection, in order
Indexed(docs, coll) == coll \in DOMAIN chroma /\ IsSubsequence(docs, chroma[coll])

\* C20 as stated: every file of the list is processed whatever happened to
\* the files before it, a file whose storing or extraction failed adds no
\* Document, and every file extracted to a non-empty text adds exactly one
\* Document tagged with its original name.
C20_NonEmptyTextIndexed ==
    \A r \in Reqs :
        /\ req[r].docs = DocsOfNonEmpty(req[r].file_log)
        /\ IngestReturned(r) =>
               /\ Len(req[r].file_log) = Len(req[r].files)
               /\ req[r].docs # <<>> => Indexed(req[r].docs, DocCollection(req[r].tenant))

\* C20: every file of the list is processed whatever happened to the files
\* before it, a file whose storing or extraction failed adds no Document, and
\* every file extracted to a text that is not blank (not empty after
\* stripping whitespace) adds exactly one Document tagged with its original
\* name; a file extracted to a blank text adds none.
C20_NonBlankTextIndexed ==
    \A r \in Reqs :
        /\ req[r].docs = DocsOfNonBlank(req[r].file_log)
        /\ \A i \in 1..Len(req[r].file_log) :
               req[r].file_log[i].name = req[r].files[i].name
        /\ IngestReturned(r) =>
               /\ Len(req[r].file_log) = Len(req[r].files)
               /\ req[r].docs # <<>> => Indexed(req[r].docs, DocCollection(req[r].tenant))

\* C20 witness: _ingest_files has returned for a list of two files; storing
\* the first failed, and the second is indexed under its name.
C20_Witness ==
    \E r \in Reqs :
        /\ IngestReturned(r)
        /\ Len(req[r].files) = 2
        /\ ~req[r].file_log[1].stored
        /\ req[r].file_log[2].extracted
        /\ Len(req[r].docs) = 1
        /\ req[r].docs[1].name = <<req[r].files[2].name>>
        /\ Indexed(req[r].docs, DocCollection(req[r].tenant))

\* ------------------------------------------------------------------------
\* Properties of memory write-back (checked under Spec)
\* ------------------------------------------------------------------------
\* the Documents that persisting the memories adds to a collection
PersistedAs(memories) == [i \in 1..Len(memories) |-> [page_content |-> memories[i], name |-> <<>>]]

\* the collection ends with the documents
EndsWith(coll, docs) ==
    /\ coll \in DOMAIN chroma
    /\ Len(chroma[coll]) >= Len(docs)
    /\ SubSeq(chroma[coll], Len(chroma[coll]) - Len(docs) + 1, Len(chroma[coll])) = docs

\* the tenant's memory collection
MemoryIndex(tenant) == <<"v", "e", "c", "_">> \o tenant \o <<"_", "m", "e", "m", "o", "r", "y">>

\* the conversation is the dispatched one followed by one assistant turn
FullExchange(r, conversation) ==
    /\ Len(conversation) = Len(req[r].dispatched[1]) + 1
    /\ SubSeq(conversation, 1, Len(conversation) - 1) = req[r].dispatched[1]
    /\ conversation[Len(conversation)].role = "assistant"

\* C21: with memory enabled, write-back calls a configured override first:
\* a list of memories it returns is persisted as it is and no extractor runs;
\* a callable it returns runs, in place of the cached extractor, over the full
\* exchange; nothing returned means no extraction and no persistence. Without
\* an override the cached extractor runs over the full exchange. Whatever
\* extractor ran, nothing is persisted when it yields no memories.
C21_OverrideResolution ==
    \A r \in Reqs : \A i \in 1..Len(req[r].wb_calls) :
        LET c == req[r].wb_calls[i]
            w == c.result
        IN cfg.enable_memory =>
            /\ FullExchange(r, c.conversation)
            /\ cfg.manager_fn <=> c.ov # "not_called"
            /\ c.ov = "memories" =>
                   /\ w.extractor = "none" /\ c.ex = "not_called"
                   /\ w.memories = << <<"o", "1">> >>
                   /\ c.st # "not_called"
            /\ c.ov = "callable" => w.extractor = "override" /\ c.ex # "not_called"
            /\ c.ov = "nothing" =>
                   /\ w.extractor = "none" /\ c.ex = "not_called"
                   /\ c.st = "not_called" /\ ~w.raised
            /\ c.ov = "not_called" => w.extractor = "cached" /\ c.ex # "not_called"
            /\ c.ex = "memories" => w.memories = << <<"m", "1">> >> /\ c.st # "not_called"
            /\ c.ex = "nothing" => w.memories = <<>> /\ c.st = "not_called" /\ ~w.raised
            /\ c.st = "ok" => EndsWith(MemoryIndex(req[r].tenant), PersistedAs(w.memories))
            /\ c.st = "not_called" => ~w.stored

\* C21 witness: the override returned a callable, which ran and whose
\* memories were persisted.
C21_Witness ==
    \E r \in Reqs :
        /\ cfg.manager_fn
        /\ Len(req[r].wb_calls) = 1
        /\ req[r].wb_calls[1].ov = "callable"
        /\ req[r].wb_calls[1].ex = "memories"
        /\ req[r].wb_calls[1].st = "ok"
        /\ req[r].wb_calls[1].result.stored

\* C22: when persisting the memories fails, write-back returns normally, and
\* a streamed request goes on to its usage callback.
C22_StoreFailureCaught ==
    \A r \in Reqs : \A i \in 1..Len(req[r].wb_calls) :
        req[r].wb_calls[i].st = "raise" =>
            /\ ~req[r].wb_calls[i].result.raised
            /\ ~req[r].wb_calls[i].result.stored
            /\ req[r].stream =>
                   /\ req[r].pc \in {"stream_usage", "closed", "stream_aborted"}
                   /\ (cfg.usage_hook /\ req[r].pc # "stream_usage") =>
                          /\ Len(req[r].usage_calls) = 1
                          /\ Before(req[r].events, "writeback", "usage")
            /\ ~req[r].stream => req[r].pc \in {"buffered_usage", "buffered_return", "done", "failed"}

\* C22 witness: a streamed request whose store raised has had its usage
\* callback invoked and is closed.
C22_Witness ==
    \E r \in Reqs :
        /\ req[r].stream
        /\ req[r].pc = "closed"
        /\ Len(req[r].wb_calls) = 1
        /\ req[r].wb_calls[1].st = "raise"
        /\ Len(req[r].usage_calls) = 1

\* ------------------------------------------------------------------------
\* Properties of memory retrieval (checked under Spec)
\* ------------------------------------------------------------------------
\* the final normalised turn has no query text
NoQueryText(r) == req[r].norm # <<>> /\ req[r].norm[Len(req[r].norm)].content = <<>>

\* the request has not yet reached write-back
BeforeWriteBack(r) == req[r].wb_calls = <<>>

\* C23: when memory is disabled, or the final normalised turn has no query
\* text, the request does not search the memory index, has no memory manager
\* looked up or built for retrieval, and gets no memory block.
C23_NoRetrievalWithoutQuery ==
    \A r \in Reqs :
        (req[r].entry = "ok" /\ (~cfg.enable_memory \/ NoQueryText(r))) =>
            /\ Pos(req[r].events, "mem_search") = 0
            /\ BeforeWriteBack(r) => req[r].mem_used = <<>>
            /\ req[r].mem_block = <<>>
            /\ req[r].rag_in # None => req[r].rag_in[1] = req[r].norm

\* the request is past the memory block of chat()
PastMemoryStage(r) == req[r].entry = "ok" /\ req[r].pc \notin {"new", "ingest", "memory", "retired"}

\* C28: with memory enabled, a request whose normalised conversation is
\* empty does not fail in memory retrieval: its accepted files are ingested
\* and it goes on to _rag and to the upstream call with the empty conversation.
C28_EmptyConversationProceeds ==
    \A r \in Reqs :
        (cfg.enable_memory /\ PastMemoryStage(r) /\ req[r].norm = <<>>) =>
            /\ Len(req[r].file_log) = Len(req[r].files)
            /\ req[r].rag_in = << <<>> >>
            /\ req[r].pc # "dispatch" => req[r].dispatched = << <<>> >>

\* ------------------------------------------------------------------------
\* Properties of the batch submission (checked under SpecIngest)
\* ------------------------------------------------------------------------
\* C24: a request's ingestion submits to the retrieval index at most once,
\* only after every file of the request was processed, with exactly the
\* Documents of the files whose extracted text is not blank; when there is no
\* such file it submits nothing.
C24_OneBatchAfterAllFiles ==
    \A r \in Reqs :
        /\ Len(req[r].batches) <= 1
        /\ req[r].batches # <<>> =>
               /\ Len(req[r].file_log) = Len(req[r].files)
               /\ req[r].batches[1] = DocsOfNonBlank(req[r].file_log)
               /\ req[r].batches[1] # <<>>
               /\ Indexed(req[r].batches[1], DocCollection(req[r].tenant))
        /\ IngestReturned(r) =>
               (req[r].batches = <<>> <=> DocsOfNonBlank(req[r].file_log) = <<>>)
        /\ \A c \in DOMAIN chroma :
               Len(chroma[c]) <= Len(Concat(req["r1"].batches)) + Len(Concat(req["r2"].batches))

\* C24 witness: a request of two files that both yield text has submitted
\* one batch of two Documents.
C24_Witness ==
    \E r \in Reqs :
        /\ IngestReturned(r)
        /\ Len(req[r].files) = 2
        /\ Len(req[r].batches) = 1
        /\ Len(req[r].batches[1]) = 2

\* ------------------------------------------------------------------------
\* Properties of ingestion within the request (checked under Spec)
\* ------------------------------------------------------------------------
\* the document is among the documents
Among(d, docs) == \E i \in 1..Len(docs) : docs[i] = d

\* C29: a request with accepted files has finished ingesting them before
\* its memory retrieval and its retrieval query run: the Documents it uploaded
\* are in the tenant's retrieval index when _rag searches it, and are returned
\* to it whenever the index holds no more than the k results of one search.
C29_IngestBeforeRetrieval ==
    \A r \in Reqs :
        (req[r].entry = "ok" /\ req[r].files # <<>>) =>
            /\ Before(req[r].events, "ingest", "mem_search")
            /\ Before(req[r].events, "ingest", "rag")
            /\ Pos(req[r].events, "ingest") # 0 =>
                   /\ Len(req[r].file_log) = Len(req[r].files)
                   /\ req[r].docs # <<>> => Indexed(req[r].docs, DocCollection(req[r].tenant))
            /\ (/\ req[r].rag_in # None
                /\ req[r].rag_in[1] # <<>>
                /\ req[r].rag_in[1][Len(req[r].rag_in[1])].content # <<>>
                /\ req[r].docs # <<>>
                /\ Len(chroma[DocCollection(req[r].tenant)]) <= 4) =>
                   \A i \in 1..Len(req[r].docs) : Among(req[r].docs[i], req[r].rag_docs)

\* C29 witness: a request that uploaded a file was sent upstream with a
\* retrieval block holding the text of that file.
C29_Witness ==
    \E r \in Reqs :
        /\ req[r].dispatched # None
        /\ Len(req[r].docs) = 1
        /\ Among(req[r].docs[1], req[r].rag_docs)
        /\ Len(req[r].msgs) > Len(req[r].norm)

\* ------------------------------------------------------------------------
\* Properties of the conversation lists (checked under Spec)
\* ------------------------------------------------------------------------
\* C25: memory injection and _rag leave the list they are given, and its
\* turns, as they were: the list _split_files returned still holds the
\* normalised turns, the list handed to _rag still holds what it was handed,
\* and each augmented conversation is a further list made of the turns of the
\* one before it, in order, and one new turn.
C25_ConversationsNotMutated ==
    \A r \in Reqs :
        req[r].lists # <<>> =>
            LET ls == req[r].lists
                n == Len(ls)
            IN /\ ls[1] = req[r].norm
               /\ ls[n] = req[r].msgs
               /\ n <= 3
               /\ req[r].rag_in # None =>
                      IF req[r].msgs = req[r].rag_in[1] THEN TRUE
                      ELSE n >= 2 /\ ls[n - 1] = req[r].rag_in[1]
               /\ \A i \in 1..(n - 1) :
                      /\ Len(ls[i + 1]) = Len(ls[i]) + 1
                      /\ IsSubsequence(ls[i], ls[i + 1])

\* C25 witness: a request has three conversation lists: the normalised one,
\* the one with the memory block, and the one with both blocks.
C25_Witness ==
    \E r \in Reqs :
        /\ Len(req[r].lists) = 3
        /\ req[r].lists[1] = req[r].norm
        /\ Len(req[r].lists[3]) = Len(req[r].norm) + 2
        /\ req[r].dispatched = <<req[r].lists[3]>>

\* ------------------------------------------------------------------------
\* Properties of the stored paths (checked under SpecPaths)
\* ------------------------------------------------------------------------
RECURSIVE Split(_, _)
\* the components of a path, cur being the component read so far
Split(path, cur) ==
    IF path = <<>> THEN <<cur>>
    ELSE IF path[1] = "/" THEN <<cur>> \o Split(Tail(path), <<>>)
    ELSE Split(Tail(path), Append(cur, path[1]))

RECURSIVE Resolved(_, _)
\* the directories and the file a relative path leads to, ".." leaving the
\* directory reached so far; a ".." that leaves the working directory is kept
Resolved(components, reached) ==
    IF components = <<>> THEN reached
    ELSE IF components[1] = <<".", ".">> /\ reached # <<>> /\ reached[Len(reached)] # <<".", ".">>
    THEN Resolved(Tail(components), SubSeq(reached, 1, Len(reached) - 1))
    ELSE Resolved(Tail(components), Append(reached, components[1]))

\* the path leads to a file under the storage directory
InsideStorage(path) ==
    LET to == Resolved(Split(path, <<>>), <<>>)
    IN Len(to) >= 2 /\ to[1] = <<"t", "e", "n", "a", "n", "t", "s">>

\* C26: the paths ingestion has written for one tenant are never written
\* for another tenant, whatever the names and contents of the files, and every
\* written path lies inside the storage directory.
C26_StoredPathsTenantScoped ==
    /\ \A e1 \in Stored, e2 \in Stored : e1.tenant # e2.tenant => e1.path # e2.path
    /\ \A e \in Stored : InsideStorage(e.path)

\* ------------------------------------------------------------------------
\* Termination of the streaming relay (checked under SpecStreamLive)
\* ------------------------------------------------------------------------
\* write-back and the usage callback, when they have started, started after
\* the terminal frame
AfterTerminalFrame(r) ==
    \A e \in {"writeback", "usage"} :
        Pos(req[r].events, e) # 0 =>
            /\ Pos(req[r].events, "done_frame") # 0
            /\ Pos(req[r].events, "done_frame") < Pos(req[r].events, e)

\* write-back has returned for the request and the usage callback, when one
\* is configured, has been invoked
StreamAccounted(r) ==
    /\ Len(req[r].wb_calls) = 1
    /\ ~req[r].wb_calls[1].result.raised
    /\ cfg.usage_hook => Len(req[r].usage_calls) = 1

\* C27: a streaming request whose provider sequence is finite and free of
\* errors and whose client keeps consuming eventually emits the terminal
\* frame and eventually afterwards completes write-back and usage
\* accounting; neither starts before the terminal frame.
C27_StreamEventuallyAccounted ==
    /\ [](\A r \in Reqs : AfterTerminalFrame(r))
    /\ \A r \in Reqs : (req[r].pc = "stream") ~> (req[r].pc = "stream_done")
    /\ \A r \in Reqs : (req[r].pc = "stream_done") ~> StreamAccounted(r)

\* ------------------------------------------------------------------------
\* Properties of concurrent streams (checked under SpecStreamConc)
\* ------------------------------------------------------------------------
\* C30: while streams are relayed concurrently, each request's buffer holds
\* the texts of its own chunks in arrival order and its count is their total
\* length; the assistant turn handed to write-back and the token count
\* handed to the usage callback are those of the request's own chunks.
C30_StreamBuffersPrivate ==
    \A r \in Reqs :
        req[r].stream =>
            /\ req[r].buf = [i \in 1..Len(req[r].chunks) |-> ChunkText(req[r].chunks[i])]
            /\ req[r].tokens = Len(Concat(req[r].buf))
            /\ \A i \in 1..Len(req[r].wb_calls) :
                   Last(req[r].wb_calls[i].conversation) =
                       Turn("assistant", Concat([j \in 1..Len(req[r].chunks) |->
                                                    ChunkText(req[r].chunks[j])]))
            /\ \A i \in 1..Len(req[r].usage_calls) :
                   req[r].usage_calls[i] =
                       [tenant |-> req[r].tenant, tokens |-> Len(AllText(req[r].chunks))]

\* C30 witness: a stream of "o" then "k!" has been written back and accounted
\* with three characters while another stream of the same tenant, whose
\* buffer holds "k!" then "o", is still between its chunks and its write-back.
C30_Witness ==
    /\ req["r1"].tenant = req["r2"].tenant
    /\ req["r1"].pc = "closed"
    /\ req["r1"].buf = << <<"o">>, <<"k", "!">> >>
    /\ Len(req["r1"].wb_calls) = 1
    /\ Last(req["r1"].wb_calls[1].conversation).content = <<"o", "k", "!">>
    /\ req["r1"].usage_calls = <<[tenant |-> req["r1"].tenant, tokens |-> 3]>>
    /\ req["r2"].pc = "stream_done"
    /\ req["r2"].buf = << <<"k", "!">>, <<"o">> >>

\* ------------------------------------------------------------------------
\* Properties of a failing provider stream (checked under Spec)
\* ------------------------------------------------------------------------
\* the provider's chunk sequence has raised for the request
ProviderRaised(r) == Pos(req[r].events, "stream_error") # 0

\* C31: once the provider's chunk sequence has raised, the frames of the
\* response are the content frames of the chunks received before, with no
\* terminal frame after them, and neither write-back nor the usage callback
\* is invoked for the request.
C31_StreamErrorEndsRelay ==
    \A r \in Reqs :
        ProviderRaised(r) =>
            /\ req[r].frames = [i \in 1..Len(req[r].chunks) |-> ContentFrame(req[r].chunks[i])]
            /\ \A i \in 1..Len(req[r].frames) : req[r].frames[i] # DoneFrame
            /\ req[r].wb_calls = <<>>
            /\ req[r].usage_calls = <<>>
            /\ Pos(req[r].events, "writeback") = 0
            /\ Pos(req[r].events, "usage") = 0

\* C31 witness: with memory and a usage callback configured, the provider
\* has raised after a content frame was emitted.
C31_Witness ==
    \E r \in Reqs :
        /\ ProviderRaised(r)
        /\ cfg.enable_memory /\ cfg.usage_hook
        /\ Len(req[r].chunks) >= 1
        /\ req[r].frames[1] = ContentFrame(req[r].chunks[1])

====
